---- MODULE Spec2Model ----
\* rsfbtrace: validation of the requested trace events, rendering of
\* fbtrace.conf, and the launch of fbtracemgr (src/src/main.rs).
EXTENDS Integers, Sequences, FiniteSets, TLC

VARIABLES
    args,        \* the parsed Args of the current run
    pc,          \* position of main in the current run
    result,      \* "Running", "Ok" or "Err": what main returned
    err,         \* the AppError main returned (kind "None" while there is none)
    file,        \* fbtrace.conf on disk: [exists, data]
    fileAtStart, \* fbtrace.conf as the current run found it
    opened,      \* the current run opened fbtrace.conf
    ioFailed,    \* the open or the write of the current run failed
    spawnCount,  \* spawn() calls of the current run
    spawnArgv,   \* argument list given to the last spawn() of the run
    waitCount,   \* wait() calls of the current run
    waitResult,  \* what wait() returned
    trace,       \* stages the current run went through, in order
    stdout,      \* lines the current run printed
    run          \* number of the current run (process invocation)

vars ==
    <<args, pc, result, err, file, fileAtStart, opened, ioFailed,
      spawnCount, spawnArgv, waitCount, waitResult, trace, stdout, run>>

-----------------------------------------------------------------------------
\* Bounds of the model.

\* longest event list a request carries
MaxEvents == 2

\* number of sequential runs sharing the working directory
MaxRuns == 2

-----------------------------------------------------------------------------
\* Program constants.

OPT_CONNECTIONS == "connections"
OPT_TRANSACTIONS == "transactions"
OPT_STATEMENT_PREPARE == "statement_prepare"
OPT_STATEMENT_FREE == "statement_free"
OPT_STATEMENT_START == "statement_start"
OPT_STATEMENT_FINISH == "statement_finish"
OPT_PROCEDURE_START == "procedure_start"
OPT_PROCEDURE_FINISH == "procedure_finish"
OPT_TRIGGER_START == "trigger_start"
OPT_TRIGGER_FINISH == "trigger_finish"
OPT_CONTEXT == "context"
OPT_ERRORS == "errors"
OPT_SWEEP == "sweep"

\* LEGAL_OPTS with OPT_CONNECTIONS listed too
LEGAL_OPTS_WithConnections ==
    << OPT_CONNECTIONS, OPT_TRANSACTIONS, OPT_STATEMENT_PREPARE,
       OPT_STATEMENT_FREE, OPT_STATEMENT_START, OPT_STATEMENT_FINISH,
       OPT_PROCEDURE_START, OPT_PROCEDURE_FINISH, OPT_TRIGGER_START,
       OPT_TRIGGER_FINISH, OPT_CONTEXT, OPT_ERRORS, OPT_SWEEP >>

LEGAL_OPTS ==
    << OPT_TRANSACTIONS, OPT_STATEMENT_PREPARE, OPT_STATEMENT_FREE,
       OPT_STATEMENT_START, OPT_STATEMENT_FINISH, OPT_PROCEDURE_START,
       OPT_PROCEDURE_FINISH, OPT_TRIGGER_START, OPT_TRIGGER_FINISH,
       OPT_CONTEXT, OPT_ERRORS, OPT_SWEEP >>

CONFIG_FILE_NAME == "fbtrace.conf"
TRACE_NAME == "rust-fbtrace"

-----------------------------------------------------------------------------
\* Values.

\* Option<String>
None == [some |-> FALSE, val |-> ""]
Some(s) == [some |-> TRUE, val |-> s]

\* Result<(), E>
OkUnit == [ok |-> TRUE, err |-> [kind |-> "None", payload |-> ""]]
ErrOf(e) == [ok |-> FALSE, err |-> e]

\* AppError
NoError == [kind |-> "None", payload |-> ""]
InvalidOpt(o) == [kind |-> "InvalidOpt", payload |-> o]
Dyn(d) == [kind |-> "Dyn", payload |-> d]
Io(i) == [kind |-> "Io", payload |-> i]

\* slice::contains / Vec::contains
Contains(s, x) == \E i \in 1..Len(s) : s[i] = x

\* Display of bool
BoolStr(b) == IF b THEN "true" ELSE "false"

\* Debug of &[&str]
RECURSIVE DebugItems(_, _)
DebugItems(s, i) ==
    IF i > Len(s) THEN ""
    ELSE (IF i > 1 THEN ", " ELSE "") \o "\"" \o s[i] \o "\""
         \o DebugItems(s, i + 1)

DebugList(s) == "[" \o DebugItems(s, 1) \o "]"

\* Display of AppError
Display(e) ==
    IF e.kind = "InvalidOpt"
    THEN "The specified event '" \o e.payload
         \o "' is not a valid for subscription. Valid events are "
         \o DebugList(LEGAL_OPTS) \o "."
    ELSE e.payload

-----------------------------------------------------------------------------
\* Inputs.

\* identifiers a caller passes to --events
EventPool == {OPT_TRANSACTIONS, OPT_SWEEP, OPT_CONNECTIONS, "bogus_event"}

EventLists == UNION {[1..n -> EventPool] : n \in 0..MaxEvents}

\* the option values a caller passes: a local and a remote service manager,
\* with and without a filter and a matcher
OptionProfiles ==
    {[host |-> None, include_filter |-> None, database_matcher |-> None],
     [host |-> Some("dbhost"), include_filter |-> None,
      database_matcher |-> Some("MYDB")],
     [host |-> None, include_filter |-> Some("SELECT%"),
      database_matcher |-> None],
     [host |-> Some("dbhost"), include_filter |-> Some("SELECT%"),
      database_matcher |-> Some("MYDB")]}

ArgsSet ==
    {[host |-> o.host,
      include_filter |-> o.include_filter,
      user |-> "SYSDBA",
      pass |-> "masterkey",
      max_sql |-> 65536,
      database_matcher |-> o.database_matcher,
      events |-> ev] : o \in OptionProfiles, ev \in EventLists}

\* what the working directory holds before the first run
InitialFiles ==
    {[exists |-> FALSE, data |-> ""],
     [exists |-> TRUE,
      data |-> "<database>\n    enabled true\n    log_connections true\n</database>\n"]}

\* errors the operating system reports
OpenErrors == {"Permission denied (os error 13)"}
WriteErrors == {"No space left on device (os error 28)"}
SpawnErrors == {"No such file or directory (os error 2)"}

\* Child::wait: the exit status of the child, or an error
WaitResults ==
    {[ok |-> TRUE, code |-> 0], [ok |-> TRUE, code |-> 1],
     [ok |-> FALSE, code |-> -1]}

-----------------------------------------------------------------------------
\* Event validation (main, the loop over args.events).

\* the loop, reporting the last illegal event instead of the first
RECURSIVE ValidateLast(_, _)
ValidateLast(events, i) ==
    IF i < 1 THEN OkUnit
    ELSE IF ~Contains(LEGAL_OPTS, events[i])
         THEN ErrOf(InvalidOpt(events[i]))
         ELSE ValidateLast(events, i - 1)

ValidateFrom_ReportLast(events, i) == ValidateLast(events, Len(events))

\* the loop body checked against the first event only
ValidateFrom_FirstOnly(events, i) ==
    IF i > Len(events) THEN OkUnit
    ELSE IF ~Contains(LEGAL_OPTS, events[i])
         THEN ErrOf(InvalidOpt(events[i]))
         ELSE OkUnit

\* for event in &args.events { if !LEGAL_OPTS.contains(..) { return Err } }
RECURSIVE ValidateFrom(_, _)
ValidateFrom(events, i) ==
    IF i > Len(events) THEN OkUnit
    ELSE IF ~Contains(LEGAL_OPTS, events[i])
         THEN ErrOf(InvalidOpt(events[i]))
         ELSE ValidateFrom(events, i + 1)

ValidateEvents(events) == ValidateFrom(events, 1)

-----------------------------------------------------------------------------
\* Rendering of the configuration document (write_config_file).

\* the literal text of the format! template, cut at its placeholders
TEMPLATE ==
    << "\n",
       "\n    enabled true\n    ",
       "\n    log_connections ",
       "\n    log_transactions ",
       "\n    log_statement_prepare ",
       "\n    log_statement_free ",
       "\n    log_statement_start ",
       " \n    log_statement_finish ",
       "\n    log_procedure_start ",
       "\n    log_procedure_finish ",
       "\n    log_trigger_start ",
       "\n    log_trigger_finish ",
       "\n    log_context ",
       "\n    log_errors ",
       "\n    log_sweep ",
       "\n    print_plan false\n    print_perf false\n    log_blr_requests false\n    print_blr false\n    log_dyn_requests false\n    print_dyn false\n    time_threshold 100\n    max_sql_length ",
       "\n    max_blr_length 500\n    max_dyn_length 500\n    max_arg_length 80\n    max_arg_count 30\n</database>" >>

\* format!: the literal pieces with the arguments between them
RECURSIVE FormatFrom(_, _, _)
FormatFrom(pieces, values, i) ==
    IF i > Len(pieces) THEN ""
    ELSE pieces[i] \o (IF i <= Len(values) THEN values[i] ELSE "")
         \o FormatFrom(pieces, values, i + 1)

Format(pieces, values) == FormatFrom(pieces, values, 1)

\* the macro e!: args.events.contains(&$event.into())
E(a, event) == Contains(a.events, event)

DbPattern(a) ==
    IF a.database_matcher.some
    THEN "<database " \o a.database_matcher.val \o ">"
    ELSE "<database>"

IncludeFilter(a) ==
    IF a.include_filter.some
    THEN "include_filter \"" \o a.include_filter.val \o "\""
    ELSE ""

\* the arguments of the format! call, in order
FormatArgs(a) ==
    << DbPattern(a),
       IncludeFilter(a),
       BoolStr(E(a, OPT_CONNECTIONS)),
       BoolStr(E(a, OPT_TRANSACTIONS)),
       BoolStr(E(a, OPT_STATEMENT_PREPARE)),
       BoolStr(E(a, OPT_STATEMENT_FREE)),
       BoolStr(E(a, OPT_STATEMENT_START)),
       BoolStr(E(a, OPT_STATEMENT_FINISH)),
       BoolStr(E(a, OPT_PROCEDURE_START)),
       BoolStr(E(a, OPT_PROCEDURE_FINISH)),
       BoolStr(E(a, OPT_TRIGGER_START)),
       BoolStr(E(a, OPT_TRIGGER_FINISH)),
       BoolStr(E(a, OPT_CONTEXT)),
       BoolStr(E(a, OPT_ERRORS)),
       BoolStr(E(a, OPT_SWEEP)),
       ToString(a.max_sql) >>

Render(a) == Format(TEMPLATE, FormatArgs(a))

-----------------------------------------------------------------------------
\* The command line of the external executable (main, Command::new).

ServiceTarget(a) ==
    IF a.host.some THEN a.host.val \o ":service_mgr" ELSE "service_mgr"

SpawnCommand(a) ==
    << "fbtracemgr", "-SE", ServiceTarget(a), "-USER", a.user, "-PASS",
       a.pass, "-START", "-NAME", TRACE_NAME, "-CONFIG", CONFIG_FILE_NAME >>

-----------------------------------------------------------------------------
\* The configuration file.

\* open without .truncate(true): the old content stays
OpenedData_NoTruncate(old) == old

\* OpenOptions::new().write(true).create(true).truncate(true).open(..)
OpenedData(old) == ""

\* bytes [1..n] of the file replaced by the first n bytes of doc (the handle
\* writes from offset 0)
WriteAt(data, doc, n) ==
    SubSeq(doc, 1, n) \o SubSeq(data, n + 1, Len(data))

\* number of bytes a failing write_all has put into the file
FailPoints(doc) == {0, Len(doc) \div 2}

\* write_all's error dropped: write_config_file returns Ok(())
WriteConfigFileReturn_Swallow(r) == OkUnit

\* f.write_all(..)?; Ok(())
WriteConfigFileReturn(r) == r

-----------------------------------------------------------------------------
\* main's handling of what its callees return.

\* the value of write_config_file ignored
MainOnWriteResult_Ignore(r) == [pc |-> "ConfigWritten", err |-> NoError]

\* if let Err(e) = write_config_file(&args) { return Err(AppError::Io(e)); }
MainOnWriteResult(r) ==
    IF r.ok THEN [pc |-> "ConfigWritten", err |-> NoError]
    ELSE [pc |-> "Failed", err |-> Io(r.err.payload)]

\* a failed spawn tried again
MainOnSpawnResult_Retry(r) ==
    IF r.ok THEN [pc |-> "Launched", err |-> NoError]
    ELSE [pc |-> "ConfigWritten", err |-> NoError]

\* Ok(mut r) => r.wait(), Err(e) => return Err(AppError::Dyn(Box::new(e)))
MainOnSpawnResult(r) ==
    IF r.ok THEN [pc |-> "Launched", err |-> NoError]
    ELSE [pc |-> "Failed", err |-> Dyn(r.err.payload)]

\* a failed wait returned as an error
MainOnWaitResult_Propagate(w) ==
    IF w.ok THEN [pc |-> "Done", err |-> NoError]
    ELSE [pc |-> "Failed", err |-> Dyn("wait failed")]

\* a non-zero exit of the child returned as an error
MainOnWaitResult_ExitCode(w) ==
    IF w.ok /\ w.code # 0
    THEN [pc |-> "Failed", err |-> Dyn("child failed")]
    ELSE [pc |-> "Done", err |-> NoError]

\* let _ = match .. { Ok(mut r) => r.wait(), .. }; Ok(())
MainOnWaitResult(w) == [pc |-> "Done", err |-> NoError]

\* the stage of the run a position of main belongs to
Stage(p) == IF p = "Opened" THEN "Validated" ELSE p

-----------------------------------------------------------------------------
\* The state machine.

NoWait == [ok |-> TRUE, code |-> 0]

\* a fresh process: nothing done yet
StartRun(a, f, n) ==
    /\ args = a
    /\ pc = "Start"
    /\ result = "Running"
    /\ err = NoError
    /\ file = f
    /\ fileAtStart = f
    /\ opened = FALSE
    /\ ioFailed = FALSE
    /\ spawnCount = 0
    /\ spawnArgv = << >>
    /\ waitCount = 0
    /\ waitResult = NoWait
    /\ trace = << "Start" >>
    /\ stdout = << >>
    /\ run = n

Init == \E a \in ArgsSet, f \in InitialFiles : StartRun(a, f, 1)

\* main moves to position p, returning e when p is "Failed"
Goto(p, e) ==
    /\ pc' = p
    /\ err' = e
    /\ result' = IF p = "Failed" THEN "Err" ELSE IF p = "Done" THEN "Ok" ELSE "Running"
    /\ trace' = IF p = "Failed" \/ Stage(p) = Stage(pc) THEN trace
                ELSE Append(trace, Stage(p))

\* main: the validation loop
Validate ==
    /\ pc = "Start"
    /\ LET r == ValidateEvents(args.events) IN
        /\ Goto(IF r.ok THEN "Validated" ELSE "Failed", r.err)
        /\ stdout' = IF r.ok THEN stdout ELSE Append(stdout, Display(r.err))
    /\ UNCHANGED <<args, file, fileAtStart, opened, ioFailed, spawnCount,
                   spawnArgv, waitCount, waitResult, run>>

\* write_config_file: the open succeeds
OpenConfigOk ==
    /\ pc = "Validated"
    /\ file' = [exists |-> TRUE, data |-> OpenedData(file.data)]
    /\ opened' = TRUE
    /\ Goto("Opened", NoError)
    /\ UNCHANGED <<args, fileAtStart, ioFailed, spawnCount, spawnArgv,
                   waitCount, waitResult, stdout, run>>

\* write_config_file: the open fails, and main returns
OpenConfigFail ==
    /\ pc = "Validated"
    /\ \E e \in OpenErrors :
        LET next == MainOnWriteResult(ErrOf(Io(e))) IN
        /\ Goto(next.pc, next.err)
        /\ stdout' = Append(stdout, e \o " at open file")
    /\ ioFailed' = TRUE
    /\ UNCHANGED <<args, file, fileAtStart, opened, spawnCount, spawnArgv,
                   waitCount, waitResult, run>>

\* write_config_file: write_all puts the whole document into the file
WriteConfigOk ==
    /\ pc = "Opened"
    /\ LET doc == Render(args)
           next == MainOnWriteResult(WriteConfigFileReturn(OkUnit)) IN
        /\ file' = [file EXCEPT !.data = WriteAt(file.data, doc, Len(doc))]
        /\ Goto(next.pc, next.err)
    /\ UNCHANGED <<args, fileAtStart, opened, ioFailed, spawnCount, spawnArgv,
                   waitCount, waitResult, stdout, run>>

\* write_config_file: write_all fails after n bytes
WriteConfigFail ==
    /\ pc = "Opened"
    /\ \E e \in WriteErrors, n \in FailPoints(Render(args)) :
        LET next == MainOnWriteResult(WriteConfigFileReturn(ErrOf(Io(e)))) IN
        /\ file' = [file EXCEPT !.data = WriteAt(file.data, Render(args), n)]
        /\ Goto(next.pc, next.err)
    /\ ioFailed' = TRUE
    /\ UNCHANGED <<args, fileAtStart, opened, spawnCount, spawnArgv,
                   waitCount, waitResult, stdout, run>>

\* main: Command::new("fbtracemgr").args(..).spawn() starts the child
SpawnOk ==
    /\ pc = "ConfigWritten"
    /\ LET next == MainOnSpawnResult(OkUnit) IN Goto(next.pc, next.err)
    /\ spawnCount' = spawnCount + 1
    /\ spawnArgv' = SpawnCommand(args)
    /\ UNCHANGED <<args, file, fileAtStart, opened, ioFailed, waitCount,
                   waitResult, stdout, run>>

\* main: spawn() fails
SpawnFail ==
    /\ pc = "ConfigWritten"
    /\ \E e \in SpawnErrors :
        LET next == MainOnSpawnResult(ErrOf(Dyn(e))) IN Goto(next.pc, next.err)
    /\ spawnCount' = spawnCount + 1
    /\ spawnArgv' = SpawnCommand(args)
    /\ UNCHANGED <<args, file, fileAtStart, opened, ioFailed, waitCount,
                   waitResult, stdout, run>>

\* main: r.wait() returns
Wait ==
    /\ pc = "Launched"
    /\ \E w \in WaitResults : waitResult' = w
    /\ waitCount' = waitCount + 1
    /\ Goto("Waited", NoError)
    /\ UNCHANGED <<args, file, fileAtStart, opened, ioFailed, spawnCount,
                   spawnArgv, stdout, run>>

\* main: the value of the match is dropped and main returns
Return ==
    /\ pc = "Waited"
    /\ LET next == MainOnWaitResult(waitResult) IN Goto(next.pc, next.err)
    /\ UNCHANGED <<args, file, fileAtStart, opened, ioFailed, spawnCount,
                   spawnArgv, waitCount, waitResult, stdout, run>>

\* the tool is invoked again in the same working directory
NewRun ==
    /\ pc \in {"Done", "Failed"}
    /\ run < MaxRuns
    /\ \E a \in ArgsSet :
        /\ args' = a
        /\ pc' = "Start"
        /\ result' = "Running"
        /\ err' = NoError
        /\ file' = file
        /\ fileAtStart' = file
        /\ opened' = FALSE
        /\ ioFailed' = FALSE
        /\ spawnCount' = 0
        /\ spawnArgv' = << >>
        /\ waitCount' = 0
        /\ waitResult' = NoWait
        /\ trace' = << "Start" >>
        /\ stdout' = << >>
        /\ run' = run + 1

Next ==
    \/ Validate
    \/ OpenConfigOk
    \/ OpenConfigFail
    \/ WriteConfigOk
    \/ WriteConfigFail
    \/ SpawnOk
    \/ SpawnFail
    \/ Wait
    \/ Return
    \/ NewRun

Spec == Init /\ [][Next]_vars

-----------------------------------------------------------------------------
\* Vocabulary of the properties.

\* the legal catalog as the source lists it (lines 21-34), as a set
LegalSet ==
    {"transactions", "statement_prepare", "statement_free", "statement_start",
     "statement_finish", "procedure_start", "procedure_finish",
     "trigger_start", "trigger_finish", "context", "errors", "sweep"}

\* the catalog in its order
CatalogOrder ==
    << "transactions", "statement_prepare", "statement_free",
       "statement_start", "statement_finish", "procedure_start",
       "procedure_finish", "trigger_start", "trigger_finish", "context",
       "errors", "sweep" >>

AllLegal == \A i \in 1..Len(args.events) : args.events[i] \in LegalSet

HasIllegalEvent == ~AllLegal

\* index of the first requested event outside the catalog
FirstIllegalIndex ==
    CHOOSE i \in 1..Len(args.events) :
        /\ args.events[i] \notin LegalSet
        /\ \A j \in 1..(i - 1) : args.events[j] \in LegalSet

Requested(e) == \E i \in 1..Len(args.events) : args.events[i] = e

InvalidEventState == pc = "Failed" /\ result = "Err" /\ err.kind = "InvalidOpt"
ConfigIOErrorState == pc = "Failed" /\ result = "Err" /\ err.kind = "Io"
LaunchErrorState == pc = "Failed" /\ result = "Err" /\ err.kind = "Dyn"

\* the spawn of the current run succeeded
Spawned == Contains(trace, "Launched")

\* the spawn of the current run was attempted and failed
SpawnFailed == spawnCount >= 1 /\ ~Spawned

\* write_config_file of the current run returned Ok
DocWritten == Contains(trace, "ConfigWritten")

StageOrder ==
    << "Start", "Validated", "ConfigWritten", "Launched", "Waited", "Done" >>

IsPrefix(s, t) == Len(s) <= Len(t) /\ \A i \in 1..Len(s) : s[i] = t[i]

Last(s) == s[Len(s)]

\* places where sub occurs in text
Occurrences(text, sub) ==
    {i \in 1..(Len(text) - Len(sub) + 1) :
        SubSeq(text, i, i + Len(sub) - 1) = sub}

Count(text, sub) == Cardinality(Occurrences(text, sub))

\* the log_ directives of a document other than the two of the static block
EventDirectiveCount(text) ==
    Count(text, "\n    log_") - Count(text, "\n    log_blr_requests ")
        - Count(text, "\n    log_dyn_requests ")

\* the first place of the directive of event e in a document
DirectiveAt(text, e) ==
    CHOOSE i \in Occurrences(text, "\n    log_" \o e \o " ") :
        \A j \in Occurrences(text, "\n    log_" \o e \o " ") : i <= j

-----------------------------------------------------------------------------
\* Properties.

\* C1: a run whose requested events hold an identifier outside the catalog
\* ends in the InvalidOpt error state, with fbtrace.conf never opened, its
\* content equal to what the run found, and the executable never spawned.
C1_InvalidEventNoSideEffect ==
    (HasIllegalEvent /\ pc # "Start") =>
        /\ InvalidEventState
        /\ ~opened
        /\ ~ioFailed
        /\ file = fileAtStart
        /\ spawnCount = 0
        /\ waitCount = 0

C1_Witness ==
    /\ InvalidEventState
    /\ Len(args.events) = 2
    /\ args.events[1] \in LegalSet
    /\ args.events[2] \notin LegalSet
    /\ fileAtStart.exists

\* C2: validation succeeds exactly when every requested event is in the
\* catalog (the empty list included), and otherwise fails with InvalidOpt
\* carrying the first event, in input order, that is not in the catalog.
C2_ValidationFirstOffender ==
    pc # "Start" =>
        /\ InvalidEventState <=> HasIllegalEvent
        /\ Contains(trace, "Validated") <=> AllLegal
        /\ InvalidEventState => err.payload = args.events[FirstIllegalIndex]
        /\ args.events = << >> => Contains(trace, "Validated")

C2_Witness ==
    /\ InvalidEventState
    /\ args.events = << "bogus_event", "connections" >>
    /\ err.payload = "bogus_event"

\* C3: the document written holds exactly one log_<event> directive per
\* catalog entry, in catalog order, true iff the entry was requested, and no
\* log_<event> directive for an identifier that is not a catalog entry.
C3_ExactlyCatalogDirectives ==
    DocWritten =>
        /\ \A i \in 1..Len(CatalogOrder) :
            /\ Count(file.data, "\n    log_" \o CatalogOrder[i] \o " ") = 1
            /\ Count(file.data, "\n    log_" \o CatalogOrder[i] \o " "
                        \o BoolStr(Requested(CatalogOrder[i]))) = 1
        /\ \A i \in 1..(Len(CatalogOrder) - 1) :
            DirectiveAt(file.data, CatalogOrder[i])
                < DirectiveAt(file.data, CatalogOrder[i + 1])
        /\ EventDirectiveCount(file.data) = Len(CatalogOrder)

\* C4: when the open or the write of fbtrace.conf fails, the run ends in
\* the Io error state and the executable is never spawned.
C4_IoFailureNoSpawn ==
    ioFailed =>
        /\ ConfigIOErrorState
        /\ spawnCount = 0
        /\ waitCount = 0

C4_Witness ==
    /\ ioFailed
    /\ ConfigIOErrorState
    /\ opened
    /\ file.data # ""
    /\ file.data # Render(args)

\* C5: main returns Ok only after validation passed, the document was
\* written, the executable was spawned and the wait returned; and once the
\* spawn has succeeded the run never ends in an error, whatever the child's
\* exit status.
C5_SuccessOnlyAfterWait ==
    /\ result = "Ok" =>
        /\ pc = "Done"
        /\ AllLegal
        /\ opened
        /\ file.data = Render(args)
        /\ spawnCount = 1
        /\ waitCount = 1
        /\ trace = StageOrder
    /\ Spawned => result # "Err" /\ pc # "Failed"
    /\ pc = "Done" => result = "Ok"

C5_Witness ==
    /\ result = "Ok"
    /\ waitResult.ok
    /\ waitResult.code # 0

\* C6: when the spawn fails the run ends in the Dyn error state with
\* fbtrace.conf holding the complete document; no wait is performed and the
\* spawn is attempted exactly once.
C6_SpawnFailure ==
    /\ spawnCount <= 1
    /\ SpawnFailed =>
        /\ LaunchErrorState
        /\ file.exists
        /\ file.data = Render(args)
        /\ waitCount = 0
        /\ spawnCount = 1
    /\ LaunchErrorState => SpawnFailed /\ AllLegal /\ DocWritten

C6_Witness ==
    /\ LaunchErrorState
    /\ SpawnFailed
    /\ run = 2
    /\ fileAtStart.data # file.data

\* C7: a run that ends Ok leaves fbtrace.conf equal to the render of its own
\* request, whatever the file held when the run began: nothing of an earlier
\* document remains, longer or shorter.
C7_FileIsRenderOfRequest ==
    result = "Ok" =>
        /\ file.exists
        /\ file.data = Render(args)

C7_Witness ==
    /\ result = "Ok"
    /\ run = 2
    /\ Len(fileAtStart.data) > Len(file.data)
    /\ \E a \in ArgsSet : a.events # args.events /\ fileAtStart.data = Render(a)

\* C8: the stages of a run are a prefix of Start, Validated, ConfigWritten,
\* Launched, Waited, Done; an error exit is taken only from Start (invalid
\* event), Validated (I/O failure) or ConfigWritten (spawn failure).
C8_StageOrder ==
    /\ IsPrefix(trace, StageOrder)
    /\ Len(trace) >= 1
    /\ pc # "Failed" => Stage(pc) = Last(trace)
    /\ pc = "Failed" =>
        \/ Last(trace) = "Start" /\ err.kind = "InvalidOpt"
        \/ Last(trace) = "Validated" /\ err.kind = "Io"
        \/ Last(trace) = "ConfigWritten" /\ err.kind = "Dyn"

C8_Witness ==
    /\ pc = "Done"
    /\ trace = StageOrder
    /\ ~waitResult.ok

\* C9: no request holding 'connections' passes validation, and every
\* document the program writes has the directive log_connections false.
C9_ConnectionsAlwaysFalse ==
    /\ (pc # "Start" /\ Requested(OPT_CONNECTIONS)) => InvalidEventState
    /\ pc = "ConfigWritten" =>
        /\ Count(file.data, "\n    log_connections false\n") = 1
        /\ Count(file.data, "log_connections ") = 1
    /\ opened => Count(file.data, "log_connections true") = 0

C9_Witness ==
    /\ pc = "ConfigWritten"
    /\ Count(fileAtStart.data, "log_connections true") = 1
    /\ Count(file.data, "\n    log_connections false\n") = 1

\* C10: once the executable has been spawned, fbtrace.conf holds exactly the
\* complete document of the current request, and every requested event is in
\* the catalog.
C10_SpawnedSeesCompleteDocument ==
    Spawned =>
        /\ file.exists
        /\ file.data # ""
        /\ file.data = Render(args)
        /\ AllLegal
        /\ spawnArgv = SpawnCommand(args)

C10_Witness ==
    /\ pc = "Launched"
    /\ run = 2
    /\ fileAtStart.exists
    /\ fileAtStart.data # file.data
    /\ Len(args.events) > 0

====
